---- MODULE Spec2Model ----
(***************************************************************************)
(* A model of ditty's Trainer (lib/ditty/trainer.py): the TrainerState     *)
(* record, the checkpoint operations _save / _save_dist, and the           *)
(* epoch / batch loop of Trainer._train_accelerate, together with the      *)
(* parts of its collaborators the loop depends on: the accelerator's       *)
(* automatically numbered checkpoints directory, skip_first_batches, and   *)
(* the interpreter's atexit registry.                                      *)
(*                                                                         *)
(* Every call the trainer makes on a collaborator is appended to `trace`,  *)
(* so that orderings and counts of calls are properties of the state.      *)
(***************************************************************************)
EXTENDS Integers, Sequences, FiniteSets, TLC

\* ---------------------------------------------------------------- bounds
MaxBatches == 3        \* a data loader holds 0..MaxBatches batches
MaxEpochs  == 2        \* train(epochs = 0..MaxEpochs)
MaxEvery   == 2        \* checkpoint_every in 1..MaxEvery
MaxCalls   == 2        \* train() calls made on one trainer in one process
MaxField   == 1        \* a field of a free-standing TrainerState is in 0..MaxField
RetrainBatches == 1    \* batches of the loader of a trainer that is re-run

\* -------------------------------------------------- values of the inputs
None         == -1                       \* max_steps = None
MaxStepsArgs == {None} \cup (0 .. MaxBatches - 1)
GradAccums   == {1, 2}                   \* grad_accum
LossScale    == 2                        \* losses are kept in units of 1/LossScale
Losses       == {1, 2}                   \* loss.item() of a batch
Stages       == {"forward", "backward", "optimizer", "scheduler"}

\* TrainerState(): epoch = 0, steps = 0, global_loss = 0
TrainerState == [epoch |-> 0, steps |-> 0, global_loss |-> 0]

\* (faulty variants: state_dict and load_state_dict with two fields swapped)
state_dict_Swapped(s) == [epoch |-> s.steps, steps |-> s.epoch, global_loss |-> s.global_loss]
load_state_dict_Swapped(s, d) == [s EXCEPT !.epoch = d.steps, !.steps = d.epoch,
                                           !.global_loss = d.global_loss]

\* TrainerState.state_dict / load_state_dict: the three fields, by key
state_dict(s) == [epoch |-> s.epoch, steps |-> s.steps, global_loss |-> s.global_loss]
load_state_dict(s, d) == [s EXCEPT !.epoch = d.epoch, !.steps = d.steps,
                                   !.global_loss = d.global_loss]

\* the keys of the mapping, in the order load_state_dict reads them
Keys == <<"epoch", "steps", "global_loss">>

\* the key load_state_dict fails on (KeyError), "" when all keys are there
KeyErrorOf(d) ==
  IF "epoch" \notin DOMAIN d THEN "epoch"
  ELSE IF "steps" \notin DOMAIN d THEN "steps"
  ELSE IF "global_loss" \notin DOMAIN d THEN "global_loss"
  ELSE ""

\* the object after load_state_dict(d): the assignments made before the
\* KeyError, all three when there is none
Loaded_state(s, d) ==
  CASE KeyErrorOf(d) = "epoch"       -> s
    [] KeyErrorOf(d) = "steps"       -> [s EXCEPT !.epoch = d.epoch]
    [] KeyErrorOf(d) = "global_loss" -> [s EXCEPT !.epoch = d.epoch, !.steps = d.steps]
    [] OTHER                         -> load_state_dict(s, d)

\* checkpoints that earlier runs may have left in <output_dir>/checkpoints:
\* the sets of their numbers, and the TrainerState they hold
PriorNumSets == {{}, {1}, {9, 10}, {2, 10}}
PriorStates  == {TrainerState,
                 [epoch |-> 0, steps |-> 1, global_loss |-> LossScale]}

VARIABLES
  load_checkpoint,   \* Trainer.load_checkpoint
  checkpoint_every,  \* Trainer.checkpoint_every
  use_scheduler,     \* Trainer.use_scheduler
  scheduler_arg,     \* a scheduler was passed to the constructor
  scheduler,         \* Trainer.scheduler: "none", "given" or "default"
  grad_accum,        \* Trainer.grad_accum
  dataset,           \* number of batches the prepared data loader yields
  state,             \* Trainer.state, the TrainerState
  iteration,         \* accelerator.project_configuration.iteration
  dir_exists,        \* <output_dir>/checkpoints exists
  checkpoints,       \* its entries: [num, state], named checkpoint_<num>
  dist,              \* <output_dir>/dist: << >> or <<state at the export>>
  hooks,             \* number of atexit registrations of self._save
  pc,                \* "idle", "epoch", "batch", "returned", "raised", "exited"
  err,               \* the error train() raised, "" if none
  epochs, max_steps, \* arguments of the running train() call
  ep,                \* loop variable of  for ep in range(state.epoch, epochs)
  batch_idx,         \* loop variable of  enumerate(dataset)
  pos,               \* position of the iterator in the data loader
  broke,             \* the batch loop was left by  break
  ret,               \* << >> or <<value returned by train()>>
  calls,             \* train() calls made so far
  budget,            \* train() calls the program makes on this trainer
  trace,             \* calls made on the collaborators, in order
  ts,                \* free-standing TrainerState objects, by name
  mapping,           \* the mapping last returned by state_dict (or edited)
  key_error,         \* the key of the KeyError of the last load_state_dict
  ts_op,             \* the last operation on the objects, and its object
  snap,              \* << >> or <<the object as it was when mapping was taken>>
  prior              \* << >> or <<the run of the process this one resumes>>

config == <<load_checkpoint, checkpoint_every, use_scheduler, scheduler_arg, scheduler,
            grad_accum, dataset, budget>>
disk   == <<iteration, dir_exists, checkpoints, dist>>
loopv  == <<epochs, max_steps, ep, batch_idx, pos, broke>>
objects == <<ts, mapping, key_error, ts_op, snap>>
vars   == <<config, state, disk, hooks, pc, err, loopv, ret, calls, budget, trace, objects, prior>>

\* ------------------------------------------------------------ arithmetic
RECURSIVE GCD(_, _)
GCD(a, b) == IF b = 0 THEN a ELSE GCD(b, a % b)

\* a / b of two numbers, b # 0, as a fraction in lowest terms
TrueDiv(a, b) == [num |-> a \div GCD(a, b), den |-> b \div GCD(a, b)]

\* --------------------------------------------------- checkpoint names
\* str(n): the decimal digits of n.  A checkpoint is named "checkpoint_" +
\* str(n); all names share the prefix, so a name is modelled by its digits.
RECURSIVE Str(_)
Str(n) == IF n < 10 THEN <<n>> ELSE Append(Str(n \div 10), n % 10)

\* int(s)
RECURSIVE IntOf(_)
IntOf(s) == IF Len(s) = 0 THEN 0
            ELSE 10 * IntOf(SubSeq(s, 1, Len(s) - 1)) + s[Len(s)]

\* a < b for Python strings: the first differing character decides, a proper
\* prefix is smaller
RECURSIVE StrLess(_, _)
StrLess(a, b) ==
  IF Len(b) = 0 THEN FALSE
  ELSE IF Len(a) = 0 THEN TRUE
  ELSE IF a[1] # b[1] THEN a[1] < b[1]
  ELSE StrLess(Tail(a), Tail(b))

\* os.listdir(f"{output_dir}/checkpoints/")
listdir == {Str(c.num) : c \in checkpoints}

\* sorted(names)[-1]
SortedLast(names) == CHOOSE a \in names : \A b \in names : b = a \/ StrLess(b, a)

\* the entry of the directory with the given name
Entry(name) == CHOOSE c \in checkpoints : Str(c.num) = name

\* ------------------------------------------------------------- the trace
\* one call: op, where it was made from (site: "startup", "loop", "final",
\* "exit"), the epoch and batch index of the loop, the loader position, and
\* the checkpoint number for calls on a checkpoint (-1 where there is none)
Ev(op, site, e, i, p, n) == [op |-> op, site |-> site, ep |-> e, idx |-> i, pos |-> p, num |-> n]

\* ------------------------------------------------------------ checkpoints
\* The files under <output_dir>: d.iteration, d.dir_exists, d.checkpoints,
\* d.dist, and d.events, the calls made on the collaborators so far.
Disk(it, dex, cps, ds, evs) ==
  [iteration |-> it, dir_exists |-> dex, checkpoints |-> cps, dist |-> ds,
   events |-> evs, ok |-> TRUE]

\* accelerator.save_state() with automatic_checkpoint_naming: creates the
\* checkpoints directory, refuses (ValueError) to write checkpoint_<iteration>
\* when that entry exists, otherwise writes the registered objects (here the
\* TrainerState) under that name and increments iteration.
save_state(d, st, site, e, i, p) ==
  IF \E c \in d.checkpoints : c.num = d.iteration
  THEN [d EXCEPT !.dir_exists = TRUE, !.ok = FALSE,
                 !.events = Append(@, Ev("save_state_error", site, e, i, p, d.iteration))]
  ELSE [d EXCEPT !.dir_exists = TRUE,
                 !.checkpoints = @ \cup {[num |-> d.iteration, state |-> state_dict(st)]},
                 !.iteration = @ + 1,
                 !.events = Append(@, Ev("save_state", site, e, i, p, d.iteration))]

\* Trainer._save_dist: save_pretrained of the unwrapped model to <output_dir>/dist
_save_dist(d, st, site, e, i, p) ==
  [d EXCEPT !.dist = <<state_dict(st)>>,
            !.events = Append(@, Ev("save_pretrained", site, e, i, p, -1))]

\* (a faulty variant of _save: the export is made before the barrier and
\* the checkpoint)
_save_DistFirst(d, no_dist, st, site, e, i, p) ==
  LET x == IF ~no_dist THEN _save_dist(d, st, site, e, i, p) ELSE d
      w == [x EXCEPT !.events = Append(@, Ev("wait_for_everyone", site, e, i, p, -1))]
  IN  save_state(w, st, site, e, i, p)

\* (a faulty variant of _save: no_dist ignored, the export is always made)
_save_AlwaysDist(d, no_dist, st, site, e, i, p) ==
  LET w == [d EXCEPT !.events = Append(@, Ev("wait_for_everyone", site, e, i, p, -1))]
      s == save_state(w, st, site, e, i, p)
  IN  IF ~s.ok THEN s ELSE _save_dist(s, st, site, e, i, p)

\* Trainer._save(no_dist)
_save(d, no_dist, st, site, e, i, p) ==
  LET w == [d EXCEPT !.events = Append(@, Ev("wait_for_everyone", site, e, i, p, -1))]
      s == save_state(w, st, site, e, i, p)
  IN  IF ~s.ok THEN s
      ELSE IF ~no_dist THEN _save_dist(s, st, site, e, i, p)
      ELSE s

\* the files and the trace as they are now
Now == Disk(iteration, dir_exists, checkpoints, dist, trace)

\* write a Disk value back to the variables
Store(d) ==
  /\ iteration' = d.iteration
  /\ dir_exists' = d.dir_exists
  /\ checkpoints' = d.checkpoints
  /\ dist' = d.dist
  /\ trace' = d.events

\* (a faulty variant of post_init_scheduler: use_scheduler is not tested)
post_init_scheduler_Unconditional(use, given) ==
  IF ~given THEN "default" ELSE "given"

\* Trainer.__post_init__: if self.use_scheduler and not self.scheduler:
\* self.scheduler = default_scheduler_factory(self.optimizer)
post_init_scheduler(use, given) ==
  IF use /\ ~given THEN "default"
  ELSE IF given THEN "given" ELSE "none"

TypeOK ==
  /\ load_checkpoint \in BOOLEAN /\ use_scheduler \in BOOLEAN
  /\ scheduler_arg \in BOOLEAN /\ scheduler \in {"none", "given", "default"}
  /\ checkpoint_every \in 1 .. MaxEvery
  /\ grad_accum \in GradAccums
  /\ dataset \in 0 .. MaxBatches
  /\ state.epoch \in Nat /\ state.steps \in Nat /\ state.global_loss \in Nat
  /\ iteration \in Nat /\ dir_exists \in BOOLEAN
  /\ hooks \in 0 .. MaxCalls
  /\ pc \in {"idle", "epoch", "batch", "returned", "raised", "exited", "killed"}
  /\ Len(prior) <= 1
  /\ calls \in 0 .. budget /\ budget \in 1 .. MaxCalls
  /\ Len(ret) <= 1 /\ Len(dist) <= 1

\* the free-standing TrainerState objects and the values of their fields
Objects     == {"s", "t"}
FieldValues == 0 .. MaxField
AnyState    == [epoch : FieldValues, steps : FieldValues, global_loss : FieldValues]

\* ------------------------------------------------------------------ Init
\* Trainer.__post_init__: a fresh TrainerState, iteration 0, nothing
\* registered with atexit; the output directory may hold earlier checkpoints.
Constructed ==
  /\ load_checkpoint \in BOOLEAN
  /\ use_scheduler \in BOOLEAN
  /\ scheduler_arg \in BOOLEAN
  /\ scheduler = post_init_scheduler(use_scheduler, scheduler_arg)
  /\ checkpoint_every \in 1 .. MaxEvery
  /\ grad_accum \in GradAccums
  /\ dataset \in 0 .. MaxBatches
  /\ state = TrainerState
  /\ iteration = 0
  /\ \/ dir_exists = FALSE /\ checkpoints = {}
     \/ /\ dir_exists = TRUE
        /\ \E nums \in PriorNumSets : \E f \in [nums -> PriorStates] :
             checkpoints = {[num |-> n, state |-> f[n]] : n \in nums}
  /\ dist = << >>
  /\ hooks = 0
  /\ pc = "idle" /\ err = ""
  /\ epochs = 0 /\ max_steps = None /\ ep = 0 /\ batch_idx = 0 /\ pos = 0
  /\ broke = FALSE
  /\ ret = << >>
  /\ calls = 0
  /\ trace = << >>
  /\ prior = << >>
  /\ ts = [o \in Objects |-> TrainerState]
  /\ mapping = state_dict(TrainerState)
  /\ key_error = "" /\ snap = << >>
  /\ ts_op = [op |-> "init", obj |-> "s"]

\* a program that calls train() once, on a trainer built without a
\* scheduler argument
Init == Constructed /\ budget = 1 /\ ~scheduler_arg

\* the same with or without a scheduler argument
InitScheduler == Constructed /\ budget = 1

\* a program that calls train() up to MaxCalls times on the same trainer
\* (after a return, or after catching the error of the previous call), here
\* on a loader of at most RetrainBatches batches and a new output directory
InitRetrain ==
  /\ Constructed /\ budget = MaxCalls /\ ~scheduler_arg
  /\ dataset <= RetrainBatches /\ grad_accum = 1 /\ checkpoint_every = 1
  /\ checkpoints = {}

\* --------------------------------------------------------------- startup
\* train(epochs, max_steps) up to the registration of the exit hook
\* (_train_accelerate, the code before the epoch loop).
Enter(e, m) ==
  /\ pc \in {"idle", "returned", "raised"}
  /\ calls < budget
  /\ calls' = calls + 1
  /\ epochs' = e /\ max_steps' = m
  /\ batch_idx' = 0 /\ pos' = 0 /\ broke' = FALSE
  /\ ret' = << >>
  /\ UNCHANGED <<config, objects, prior>>

\* the run goes on to the epoch loop: atexit.register(self._save)
Registered(d, st) ==
  /\ Store([d EXCEPT !.events = Append(@, Ev("register", "startup", st.epoch, -1, -1, -1))])
  /\ state' = st
  /\ hooks' = hooks + 1
  /\ ep' = st.epoch
  /\ pc' = "epoch" /\ err' = ""

\* the run ends with an error raised out of train()
Raised(d, st, e) ==
  /\ Store(d)
  /\ state' = st
  /\ pc' = "raised" /\ err' = e

Called(e, m) == [Now EXCEPT !.events = Append(@, Ev("train", "startup", e, -1, -1, m))]

\* load_checkpoint is false: self._save(no_dist=True)
TrainFresh(e, m) ==
  /\ ~load_checkpoint
  /\ Enter(e, m)
  /\ LET d == _save(Called(e, m), TRUE, state, "startup", state.epoch, -1, -1)
     IN  IF d.ok THEN Registered(d, state)
         ELSE Raised(d, state, "ValueError") /\ UNCHANGED <<hooks, ep>>

\* (a faulty variant of TrainNoCheckpoint: the FileNotFoundError is not caught)
TrainNoCheckpoint_Uncaught(e, m) ==
  /\ load_checkpoint /\ ~dir_exists
  /\ Enter(e, m)
  /\ Raised(Called(e, m), state, "FileNotFoundError")
  /\ UNCHANGED <<hooks, ep>>

\* load_checkpoint is true and os.listdir raises FileNotFoundError: caught,
\* self._save(no_dist=True)
TrainNoCheckpoint(e, m) ==
  /\ load_checkpoint /\ ~dir_exists
  /\ Enter(e, m)
  /\ LET d == _save(Called(e, m), TRUE, state, "startup", state.epoch, -1, -1)
     IN  IF d.ok THEN Registered(d, state)
         ELSE Raised(d, state, "ValueError") /\ UNCHANGED <<hooks, ep>>

\* load_checkpoint is true and the directory is empty: sorted([])[-1] raises
\* IndexError, which the except clause does not catch
TrainEmptyDir(e, m) ==
  /\ load_checkpoint /\ dir_exists /\ listdir = {}
  /\ Enter(e, m)
  /\ Raised(Called(e, m), state, "IndexError")
  /\ UNCHANGED <<hooks, ep>>

\* load_checkpoint is true, the directory has entries, and the selected
\* checkpoint lacks a file load_state expects: FileNotFoundError, caught
\* before the TrainerState (restored last) or iteration is touched, then
\* self._save(no_dist=True)
TrainMissingFile(e, m) ==
  /\ load_checkpoint /\ dir_exists /\ listdir # {}
  /\ Enter(e, m)
  /\ LET last_cp == SortedLast(listdir)
         c == Called(e, m)
         f == [c EXCEPT !.events = Append(@, Ev("load_state_error", "startup", -1, -1, -1,
                                                Entry(last_cp).num))]
         d == _save(f, TRUE, state, "startup", state.epoch, -1, -1)
     IN  IF d.ok THEN Registered(d, state)
         ELSE Raised(d, state, "ValueError") /\ UNCHANGED <<hooks, ep>>

\* (a faulty variant of TrainResume: iteration is set to the number of the
\* loaded checkpoint, not to one past it)
TrainResume_SameNumber(e, m) ==
  /\ load_checkpoint /\ dir_exists /\ listdir # {}
  /\ Enter(e, m)
  /\ LET last_cp == SortedLast(listdir)
         c == Called(e, m)
         d == [c EXCEPT !.iteration = IntOf(last_cp),
                        !.events = Append(@, Ev("load_state", "startup", -1, -1, -1, Entry(last_cp).num))]
     IN  Registered(d, load_state_dict(state, Entry(last_cp).state))

\* load_checkpoint is true and the directory has entries: load_state of the
\* last name in sorted order, iteration = int(suffix) + 1
TrainResume(e, m) ==
  /\ load_checkpoint /\ dir_exists /\ listdir # {}
  /\ Enter(e, m)
  /\ LET last_cp == SortedLast(listdir)
         last_cp_num == IntOf(last_cp)
         c == Called(e, m)
         d == [c EXCEPT !.iteration = last_cp_num + 1,
                        !.events = Append(@, Ev("load_state", "startup", -1, -1, -1, Entry(last_cp).num))]
     IN  Registered(d, load_state_dict(state, Entry(last_cp).state))

\* ------------------------------------------------------------- the loop
\* (a faulty variant of skip_first_batches: one batch fewer is skipped)
skip_first_batches_OneLess(n) == n - 1

\* accelerator.skip_first_batches(dataset, n): an iterator that starts at
\* position n of the loader (and yields nothing when n is past its end)
skip_first_batches(n) == n

\* for ep in range(state.epoch, epochs): the next epoch begins
EpochBegin ==
  /\ pc = "epoch" /\ ep < epochs
  /\ pos' = IF state.steps > 0 THEN skip_first_batches(state.steps) ELSE 0
  /\ trace' = IF state.steps > 0
              THEN Append(trace, Ev("skip_first_batches", "loop", ep, -1, state.steps, -1))
              ELSE trace
  /\ batch_idx' = 0 /\ broke' = FALSE
  /\ pc' = "batch"
  /\ UNCHANGED <<objects, prior, config, state, iteration, dir_exists, checkpoints, dist, hooks,
                 err, epochs, max_steps, ep, ret, calls>>

\* the calls of one batch, up to and including the named stage
StageCalls(upto) ==
  LET f == <<Ev("forward", "loop", ep, batch_idx, pos, -1)>>
      b == Append(f, Ev("backward", "loop", ep, batch_idx, pos, -1))
      o == Append(b, Ev("optimizer_step", "loop", ep, batch_idx, pos, -1))
      s == IF use_scheduler
           THEN Append(o, Ev("scheduler_step", "loop", ep, batch_idx, pos, -1))
           ELSE o
  IN  CASE upto = "none"      -> << >>
        [] upto = "forward"   -> f
        [] upto = "backward"  -> b
        [] upto = "optimizer" -> o
        [] upto = "scheduler" -> s
        [] upto = "all"       -> Append(s, Ev("zero_grad", "loop", ep, batch_idx, pos, -1))

\* batch_loss = loss.item() / self.grad_accum, in units of 1/LossScale
batch_loss(loss) == (loss * LossScale) \div grad_accum

\* (a faulty variant of Stepped: the step is not counted)
Stepped_Uncounted(st, loss) ==
  [st EXCEPT !.global_loss = @ + batch_loss(loss)]

\* the state after a batch: global_loss += batch_loss; steps += 1
Stepped(st, loss) ==
  [st EXCEPT !.global_loss = @ + batch_loss(loss), !.steps = @ + 1]

\* (faulty variants of Breaks: the None test left out; > in place of >=)
Breaks_NoneUntested(m, i) == i >= m
Breaks_OffByOne(m, i) == m # None /\ i > m

\* if max_steps is not None and batch_idx >= max_steps: break
Breaks(m, i) == m # None /\ i >= m

\* (a faulty variant of SavesAt: batches counted from one)
SavesAt_FromOne(i) == (i + 1) % checkpoint_every = 0

\* if batch_idx % self.checkpoint_every == 0: self._save()
SavesAt(i) == i % checkpoint_every = 0

\* one batch of the loop, from the forward pass to the periodic checkpoint
Batch(loss) ==
  /\ pc = "batch" /\ ~broke /\ pos < dataset
  /\ LET st == Stepped(state, loss)
         d  == [Now EXCEPT !.events = @ \o StageCalls("all")]
     IN  IF Breaks(max_steps, batch_idx)
         THEN /\ Store(d) /\ state' = st
              /\ broke' = TRUE
              /\ UNCHANGED <<batch_idx, pos, pc, err>>
         ELSE LET s == IF SavesAt(batch_idx)
                       THEN _save(d, FALSE, st, "loop", ep, batch_idx, pos)
                       ELSE d
              IN  IF s.ok
                  THEN /\ Store(s) /\ state' = st
                       /\ batch_idx' = batch_idx + 1 /\ pos' = pos + 1
                       /\ UNCHANGED <<broke, pc, err>>
                  ELSE /\ Raised(s, st, "ValueError")
                       /\ UNCHANGED <<batch_idx, pos, broke>>
  /\ UNCHANGED <<objects, prior, config, hooks, epochs, max_steps, ep, ret, calls>>

\* the forward pass, the backward pass, the optimizer step or the scheduler
\* step of a batch raises: nothing catches it
BatchFails(stage) ==
  /\ pc = "batch" /\ ~broke /\ pos < dataset
  /\ stage \in Stages /\ (stage = "scheduler" => use_scheduler)
  /\ LET before == CASE stage = "forward"   -> "none"
                     [] stage = "backward"  -> "forward"
                     [] stage = "optimizer" -> "backward"
                     [] stage = "scheduler" -> "optimizer"
     IN  trace' = Append(trace \o StageCalls(before),
                         Ev(stage \o "_error", "loop", ep, batch_idx, pos, -1))
  /\ pc' = "raised" /\ err' = "StepError"
  /\ UNCHANGED <<objects, prior, config, state, iteration, dir_exists, checkpoints, dist, hooks,
                 epochs, max_steps, ep, batch_idx, pos, broke, ret, calls>>

\* the batch loop is over (loader exhausted, or break): self.state.epoch += 1
EpochEnd ==
  /\ pc = "batch" /\ (broke \/ pos >= dataset)
  /\ state' = [state EXCEPT !.epoch = @ + 1]
  /\ ep' = ep + 1
  /\ pc' = "epoch"
  /\ trace' = Append(trace, Ev("epoch_end", "loop", ep, batch_idx, pos, -1))
  /\ UNCHANGED <<objects, prior, config, iteration, dir_exists, checkpoints, dist, hooks, err,
                 epochs, max_steps, batch_idx, pos, broke, ret, calls>>

\* (a faulty variant of unregister: one registration is removed)
unregister_One(h) == IF h > 0 THEN h - 1 ELSE 0

\* atexit.unregister(f): every registration of f is removed
unregister(h) == 0

\* (a faulty variant of Finish: the mean is computed before the hook is removed and
\* the final checkpoint is made)
Finish_DivideFirst ==
  /\ pc = "epoch" /\ ep >= epochs
  /\ IF state.steps = 0
     THEN /\ pc' = "raised" /\ err' = "ZeroDivisionError"
          /\ UNCHANGED <<hooks, iteration, dir_exists, checkpoints, dist, trace, ret>>
     ELSE /\ hooks' = 0
          /\ LET u == [Now EXCEPT !.events = Append(@, Ev("unregister", "final", ep, -1, -1, -1))]
                 d == _save(u, FALSE, state, "final", ep, -1, -1)
             IN  /\ Store(d)
                 /\ IF ~d.ok THEN pc' = "raised" /\ err' = "ValueError" /\ ret' = ret
                    ELSE pc' = "returned" /\ err' = ""
                         /\ ret' = <<TrueDiv(state.global_loss, state.steps)>>
  /\ UNCHANGED <<objects, prior, config, state, loopv, calls>>

\* the epoch loop is over: atexit.unregister(self._save); self._save();
\* return self.state.global_loss / self.state.steps
Finish ==
  /\ pc = "epoch" /\ ep >= epochs
  /\ hooks' = unregister(hooks)
  /\ LET u == [Now EXCEPT !.events = Append(@, Ev("unregister", "final", ep, -1, -1, -1))]
         d == _save(u, FALSE, state, "final", ep, -1, -1)
     IN  /\ Store(d)
         /\ IF ~d.ok THEN pc' = "raised" /\ err' = "ValueError" /\ ret' = ret
            ELSE IF state.steps = 0
            THEN pc' = "raised" /\ err' = "ZeroDivisionError" /\ ret' = ret
            ELSE pc' = "returned" /\ err' = ""
                 /\ ret' = <<TrueDiv(state.global_loss, state.steps)>>
  /\ UNCHANGED <<objects, prior, config, state, loopv, calls>>

\* ------------------------------------------------------------------ exit
\* the interpreter exits: every registered hook runs self._save(); an error
\* raised by a hook is reported and the remaining hooks still run
RECURSIVE RunHooks(_, _)
RunHooks(k, d) ==
  IF k = 0 THEN d
  ELSE RunHooks(k - 1, [_save(d, FALSE, state, "exit", ep, batch_idx, pos) EXCEPT !.ok = TRUE])

ProcessExit ==
  /\ pc \in {"idle", "returned", "raised"}
  /\ Store(RunHooks(hooks, [Now EXCEPT !.events = Append(@, Ev("exit", "exit", -1, -1, -1, -1))]))
  /\ pc' = "exited"
  /\ UNCHANGED <<objects, prior, config, state, hooks, err, loopv, ret, calls>>

Train ==
  \E e \in 0 .. MaxEpochs : \E m \in MaxStepsArgs :
    \/ TrainFresh(e, m)
    \/ TrainNoCheckpoint(e, m)
    \/ TrainEmptyDir(e, m)
    \/ TrainMissingFile(e, m)
    \/ TrainResume(e, m)

Next ==
  \/ Train
  \/ EpochBegin
  \/ \E loss \in Losses : Batch(loss)
  \/ \E stage \in Stages : BatchFails(stage)
  \/ EpochEnd
  \/ Finish
  \/ ProcessExit

Spec == Init /\ [][Next]_vars

SpecRetrain == InitRetrain /\ [][Next]_vars

SpecScheduler == InitScheduler /\ [][Next]_vars

\* ----------------------------------------------- a run that is resumed
\* the batches a process has completed, as <<epoch, loader position>>, in order
RECURSIVE Completed(_)
Completed(t) ==
  IF Len(t) = 0 THEN << >>
  ELSE IF t[1].op = "zero_grad" THEN <<(<<t[1].ep, t[1].pos>>)>> \o Completed(Tail(t))
  ELSE Completed(Tail(t))

\* the last thing the process did was a full checkpoint: a periodic one, the
\* final one, or the one of the exit hook
AfterFullCheckpoint ==
  /\ Len(trace) >= 2
  /\ \/ pc = "batch" /\ trace[Len(trace)].op = "save_pretrained"
     \/ pc = "exited" /\ trace[Len(trace)].op = "save_pretrained"
     \/ pc = "exited" /\ trace[Len(trace)].op = "exit"
                      /\ trace[Len(trace) - 1].op = "save_pretrained"

\* the process is stopped at once, right after a periodic checkpoint; no
\* exit hook runs
Kill ==
  /\ pc = "batch" /\ AfterFullCheckpoint
  /\ pc' = "killed"
  /\ UNCHANGED <<config, state, disk, hooks, err, loopv, ret, calls, trace, objects, prior>>

\* a new process builds a Trainer on the same output directory with
\* load_checkpoint = True and otherwise the same arguments
Restart ==
  /\ prior = << >>
  /\ pc = "killed" \/ (pc = "exited" /\ AfterFullCheckpoint)
  /\ prior' = <<[epochs |-> epochs, max_steps |-> max_steps, done |-> Completed(trace)]>>
  /\ load_checkpoint' = TRUE
  /\ state' = TrainerState
  /\ iteration' = 0 /\ hooks' = 0
  /\ pc' = "idle" /\ err' = ""
  /\ epochs' = 0 /\ max_steps' = None /\ ep' = 0 /\ batch_idx' = 0 /\ pos' = 0
  /\ broke' = FALSE /\ ret' = << >> /\ calls' = 0 /\ trace' = << >>
  /\ UNCHANGED <<checkpoint_every, use_scheduler, scheduler_arg, scheduler, grad_accum,
                 dataset, budget, dir_exists, checkpoints, dist, objects>>

\* a first process on an output directory without checkpoints
InitResume == Constructed /\ budget = 1 /\ ~scheduler_arg /\ checkpoints = {}

NextResume == Next \/ Kill \/ Restart

SpecResume == InitResume /\ [][NextResume]_vars

\* ------------------------------------------------- TrainerState on its own
\* two TrainerState objects with any field values, beside an idle trainer
InitState ==
  /\ load_checkpoint = FALSE /\ use_scheduler = FALSE /\ scheduler_arg = FALSE
  /\ scheduler = "none" /\ checkpoint_every = 1 /\ grad_accum = 1 /\ dataset = 0
  /\ budget = 1
  /\ state = TrainerState /\ iteration = 0 /\ dir_exists = FALSE /\ checkpoints = {}
  /\ dist = << >> /\ hooks = 0 /\ pc = "idle" /\ err = ""
  /\ epochs = 0 /\ max_steps = None /\ ep = 0 /\ batch_idx = 0 /\ pos = 0
  /\ broke = FALSE /\ ret = << >> /\ calls = 0 /\ trace = << >>
  /\ prior = << >>
  /\ ts \in [Objects -> AnyState]
  /\ mapping = state_dict(TrainerState)
  /\ key_error = "" /\ snap = << >>
  /\ ts_op = [op |-> "init", obj |-> "s"]

trainer == <<config, state, disk, hooks, pc, err, loopv, ret, calls, trace, prior>>

\* d = o.state_dict()
StateDict(o) ==
  /\ mapping' = state_dict(ts[o])
  /\ snap' = <<ts[o]>>
  /\ key_error' = ""
  /\ ts_op' = [op |-> "state_dict", obj |-> o]
  /\ UNCHANGED <<ts, trainer>>

\* the caller removes a key from the mapping: del d[k]
DropKey(k) ==
  /\ k \in DOMAIN mapping
  /\ mapping' = [x \in DOMAIN mapping \ {k} |-> mapping[x]]
  /\ snap' = << >>
  /\ ts_op' = [op |-> "del", obj |-> ts_op.obj]
  /\ UNCHANGED <<ts, key_error, trainer>>

\* o.load_state_dict(d)
LoadStateDict(o) ==
  /\ ts' = [ts EXCEPT ![o] = Loaded_state(ts[o], mapping)]
  /\ key_error' = KeyErrorOf(mapping)
  /\ ts_op' = [op |-> "load_state_dict", obj |-> o]
  /\ UNCHANGED <<mapping, snap, trainer>>

\* a field of o is assigned, as the trainer does with += in the loop
Assign(o, k) ==
  /\ ts[o][k] < MaxField
  /\ ts' = [ts EXCEPT ![o][k] = @ + 1]
  /\ ts_op' = [op |-> "assign", obj |-> o]
  /\ UNCHANGED <<mapping, snap, key_error, trainer>>

NextState ==
  \/ \E o \in Objects : StateDict(o)
  \/ \E k \in {Keys[i] : i \in DOMAIN Keys} : DropKey(k)
  \/ \E o \in Objects : LoadStateDict(o)
  \/ \E o \in Objects : \E k \in {Keys[i] : i \in DOMAIN Keys} : Assign(o, k)

SpecState == InitState /\ [][NextState]_vars

\* ======================================================== properties
\* positions of the trace that hold a call of the given kind
At(op)            == {i \in DOMAIN trace : trace[i].op = op}
AtSite(op, site)  == {i \in DOMAIN trace : trace[i].op = op /\ trace[i].site = site}
InEpoch(op, e)    == {i \in DOMAIN trace : trace[i].op = op /\ trace[i].ep = e}
Last(S)           == IF S = {} THEN 0 ELSE CHOOSE i \in S : \A j \in S : j <= i
Ceil(a, b)        == (a + b - 1) \div b

\* no checkpoint was loaded: the run started from TrainerState()
NoResume == At("load_state") = {}

\* C1: a fresh run (no resume, no max_steps, grad_accum = 1, no scheduler) of
\* one epoch over B >= 1 batches that returns has called backward exactly B
\* times, has state.steps = B and state.epoch = 1, and returns
\* state.global_loss / B.
C1_FreshEpoch ==
  (/\ pc = "returned" /\ calls = 1
   /\ ~load_checkpoint /\ max_steps = None /\ grad_accum = 1 /\ ~use_scheduler
   /\ epochs = 1 /\ dataset >= 1)
  => /\ Cardinality(At("backward")) = dataset
     /\ state.steps = dataset
     /\ state.epoch = 1
     /\ ret = <<TrueDiv(state.global_loss, dataset)>>

\* the spec's case: three batches, checkpoint_every = 2
C1_Witness ==
  /\ pc = "returned" /\ calls = 1
  /\ ~load_checkpoint /\ max_steps = None /\ grad_accum = 1 /\ ~use_scheduler
  /\ epochs = 1 /\ dataset = 3 /\ checkpoint_every = 2
  /\ Cardinality(At("backward")) = 3

\* C2 (as claimed): in a run of E >= 2 epochs with no resume and no
\* max_steps, every epoch iterates over all B batches of the loader, so a
\* run that returns has processed E * B batches.
C2_EveryEpochAllBatches ==
  (/\ pc = "returned" /\ calls = 1
   /\ ~load_checkpoint /\ max_steps = None /\ epochs >= 2)
  => /\ \A e \in 0 .. epochs - 1 : Cardinality(InEpoch("forward", e)) = dataset
     /\ Cardinality(At("forward")) = epochs * dataset

\* C3: with checkpoint_every = N, no resume and no max_steps, the _save calls
\* made inside the batch loop of the first epoch are made exactly at the batch
\* indices 0, N, 2N, ... below B, once each (ceil(B / N) calls), and the only
\* other save before the end of that epoch is the one made at startup.
LoopSaves(e)  == {i \in InEpoch("wait_for_everyone", e) : trace[i].site = "loop"}
FirstEpochEnd == Last(InEpoch("epoch_end", 0))
C3_CheckpointCadence ==
  (NoResume /\ calls = 1 /\ max_steps = None)
  => /\ \A i \in LoopSaves(0) : trace[i].idx % checkpoint_every = 0
     /\ \A i, j \in LoopSaves(0) : trace[i].idx = trace[j].idx => i = j
     /\ FirstEpochEnd # 0 =>
          /\ {trace[i].idx : i \in LoopSaves(0)}
               = {b \in 0 .. dataset - 1 : b % checkpoint_every = 0}
          /\ Cardinality(LoopSaves(0)) = Ceil(dataset, checkpoint_every)
          /\ \A i \in LoopSaves(0) : trace[i + 1].op = "save_state"
          /\ {i \in At("wait_for_everyone") : i < FirstEpochEnd} \ LoopSaves(0)
               = AtSite("wait_for_everyone", "startup")
          /\ Cardinality(AtSite("wait_for_everyone", "startup")) = 1

\* an epoch of three batches with N = 2 has ended: saves at indices 0 and 2
C3_Witness ==
  /\ NoResume /\ calls = 1 /\ max_steps = None
  /\ FirstEpochEnd # 0 /\ dataset = 3 /\ checkpoint_every = 2
  /\ Cardinality(LoopSaves(0)) = 2

\* C4: with max_steps = K, 0 <= K < B - 1, and no resume, the batch loop of
\* the first epoch ends right after batch index K: no batch with a greater
\* index is processed in that epoch, the loop is left only when the batches
\* 0..K have been processed, and the run then ends the epoch (state.epoch is
\* incremented) instead of aborting.
FirstEpochBatches == {trace[i].idx : i \in InEpoch("forward", 0)}
C4_Case == NoResume /\ calls = 1 /\ max_steps >= 0 /\ max_steps < dataset - 1
C4_Inv ==
  C4_Case =>
     /\ \A b \in FirstEpochBatches : b <= max_steps
     /\ \A i, j \in InEpoch("forward", 0) : trace[i].idx = trace[j].idx => i = j
     /\ (ep = 0 /\ broke) => (FirstEpochBatches = 0 .. max_steps /\ pc = "batch")
     /\ FirstEpochEnd # 0 => (FirstEpochBatches = 0 .. max_steps /\ state.epoch >= 1)
C4_Step ==
  (C4_Case /\ ep = 0 /\ broke /\ pc = "batch")
  => (pc' = "epoch" /\ state'.epoch = state.epoch + 1 /\ ep' = 1)
C4_MaxStepsBreak == [](C4_Inv) /\ [][C4_Step]_vars

\* K = 1 on a loader of three batches: the epoch ended after batches 0 and 1
C4_Witness ==
  /\ C4_Case /\ max_steps = 1 /\ dataset = 3
  /\ FirstEpochEnd # 0 /\ FirstEpochBatches = {0, 1} /\ state.epoch = 1

\* C5 (as claimed): the checkpoint restored at startup is the one with the
\* greatest number among those in the checkpoints directory.
C5_RestoresLatest ==
  \A i \in At("load_state") :
    (calls = 1 /\ i = Len(trace) - 1) => \A c \in checkpoints : c.num <= trace[i].num

\* the first train() call was made with load_checkpoint set and no
\* checkpoints directory: nothing was loaded and the directory was not empty
StartupSaves(op) == {i \in AtSite(op, "startup") : i <= 4}
NoDirectoryCase ==
  /\ load_checkpoint /\ calls = 1 /\ NoResume /\ err # "IndexError"
  /\ At("load_state_error") = {}

\* C6 (as claimed): with load_checkpoint set and no checkpoints directory,
\* startup does not raise, makes exactly one standalone parameter export and
\* no full resumable checkpoint, and the loop starts from epoch 0, steps 0.
C6_DistOnlyFallback ==
  NoDirectoryCase =>
     /\ Len(trace) >= 4 /\ trace[4].op = "register"
     /\ Cardinality(StartupSaves("save_pretrained")) = 1
     /\ StartupSaves("save_state") = {}
     /\ Len(trace) = 4 => (pc \in {"epoch", "batch"} /\ state = TrainerState)

\* C6 (amended): with load_checkpoint set and no checkpoints directory,
\* startup does not raise: the missing directory is caught, exactly one
\* _save(no_dist=True) is made, which writes the full resumable checkpoint
\* checkpoint_0 of the untrained state and no standalone export, and the
\* loop starts from epoch 0, steps 0.
C6_CheckpointFallback ==
  NoDirectoryCase =>
     /\ Len(trace) >= 4
     /\ <<trace[1].op, trace[2].op, trace[3].op, trace[4].op>>
          = <<"train", "wait_for_everyone", "save_state", "register">>
     /\ Cardinality(AtSite("wait_for_everyone", "startup")) = 1
     /\ trace[3].num = 0
     /\ [num |-> 0, state |-> state_dict(TrainerState)] \in checkpoints
     /\ AtSite("save_pretrained", "startup") = {}
     /\ Len(trace) = 4 =>
          /\ pc \in {"epoch", "batch"} /\ hooks = 1
          /\ state = TrainerState /\ ep = 0 /\ dist = << >>

C6_Witness ==
  /\ NoDirectoryCase /\ Len(trace) = 4 /\ pc = "epoch"
  /\ checkpoints = {[num |-> 0, state |-> state_dict(TrainerState)]}

\* C7 (as claimed): with load_checkpoint false, the startup save writes the
\* standalone parameters to dist and persists no full resumable checkpoint
\* (save_state is not invoked, no checkpoint number is consumed).
C7_DistOnlyStartup ==
  (~load_checkpoint /\ calls = 1) =>
     /\ StartupSaves("save_pretrained") # {}
     /\ StartupSaves("save_state") = {} /\ StartupSaves("save_state_error") = {}
     /\ Len(trace) <= 4 => (dist # << >> /\ iteration = 0)

\* C7 (amended): with load_checkpoint false, the startup save is
\* _save(no_dist=True): after the barrier it invokes save_state, which
\* persists a full resumable checkpoint under the next checkpoint number
\* (or raises when that name exists), and it writes nothing to dist.
C7_CheckpointOnlyStartup ==
  (~load_checkpoint /\ calls = 1) =>
     /\ Len(trace) >= 3
     /\ trace[2].op = "wait_for_everyone" /\ trace[2].site = "startup"
     /\ trace[3].op \in {"save_state", "save_state_error"} /\ trace[3].site = "startup"
     /\ Cardinality(AtSite("wait_for_everyone", "startup")) = 1
     /\ AtSite("save_pretrained", "startup") = {}
     /\ trace[3].op = "save_state" =>
          /\ trace[3].num = 0
          /\ [num |-> 0, state |-> state_dict(TrainerState)] \in checkpoints
          /\ Len(trace) = 4 => (iteration = 1 /\ dist = << >>)
     /\ trace[3].op = "save_state_error" => (pc \in {"raised", "exited"} /\ hooks = 0)

C7_Witness ==
  /\ ~load_checkpoint /\ calls = 1 /\ Len(trace) = 4 /\ pc = "epoch"
  /\ trace[3].op = "save_state" /\ iteration = 1 /\ dist = << >>

\* C8: once the epoch loop of a train() call has completed, the exit hook
\* was removed just before the final save, that call makes exactly one final
\* _save (a full checkpoint: save_state and the dist export, when the call
\* returns), no exit hook of the trainer is registered, and a process exit
\* after it makes no further checkpoint; also when train() was called before.
LastRegister   == Last(At("register"))
LastUnregister == Last(At("unregister"))
C8_HookRemoved ==
  LastUnregister > LastRegister =>
     /\ hooks = 0
     /\ trace[LastUnregister + 1].op = "wait_for_everyone"
     /\ trace[LastUnregister + 1].site = "final"
     /\ Cardinality({i \in AtSite("wait_for_everyone", "final") : i > LastRegister}) = 1
     /\ pc = "returned" =>
          /\ Cardinality({i \in AtSite("save_state", "final") : i > LastRegister}) = 1
          /\ Cardinality({i \in AtSite("save_pretrained", "final") : i > LastRegister}) = 1
          /\ trace[Len(trace)].op = "save_pretrained"
     /\ \A i \in DOMAIN trace :
          (i > LastUnregister /\ trace[i].site = "exit") => trace[i].op = "exit"

\* a call that raised in a batch, then a call that returned, then the exit
C8_Witness ==
  /\ calls = 2 /\ pc = "exited" /\ err = ""
  /\ LastUnregister > LastRegister
  /\ \E i \in At("forward_error") : i < LastRegister
  /\ trace[Len(trace)].op = "exit"

\* C9 (as claimed): an error of the forward pass, the backward pass, the
\* optimizer step or the scheduler step leaves train() with the exit hook
\* registered, and the process exit then performs exactly one full checkpoint,
\* which records the TrainerState of the batches completed before the error.
C9_OneExitCheckpoint ==
  /\ (pc = "raised" /\ err = "StepError") => hooks >= 1
  /\ (pc = "exited" /\ err = "StepError") =>
        /\ Cardinality(AtSite("wait_for_everyone", "exit")) = 1
        /\ Cardinality(AtSite("save_state", "exit")) = 1
        /\ Cardinality(AtSite("save_pretrained", "exit")) = 1
        /\ [num |-> iteration - 1, state |-> state_dict(state)] \in checkpoints

\* C10: train() returns state.global_loss / state.steps; when state.steps is
\* 0 at the end of the loop it raises ZeroDivisionError instead, and it does
\* so only after the exit hook was removed and the final full checkpoint was
\* made.
FinalSaved ==
  /\ Len(trace) >= 4
  /\ <<trace[Len(trace) - 3].op, trace[Len(trace) - 2].op,
       trace[Len(trace) - 1].op, trace[Len(trace)].op>>
       = <<"unregister", "wait_for_everyone", "save_state", "save_pretrained">>
C10_MeanLoss ==
  /\ pc = "returned" => (state.steps > 0 /\ ret = <<TrueDiv(state.global_loss, state.steps)>>)
  /\ FinalSaved =>
        IF state.steps = 0
        THEN pc = "raised" /\ err = "ZeroDivisionError" /\ ret = << >>
        ELSE pc = "returned"
  /\ err = "ZeroDivisionError" =>
        /\ state.steps = 0 /\ hooks = 0
        /\ LastUnregister > LastRegister
        /\ \E i \in AtSite("save_state", "final") :
             /\ i = LastUnregister + 2
             /\ trace[i + 1].op = "save_pretrained"
             /\ [num |-> trace[i].num, state |-> state_dict(state)] \in checkpoints

\* an empty loader, one epoch
C10_Witness ==
  /\ pc = "raised" /\ err = "ZeroDivisionError" /\ FinalSaved
  /\ epochs >= 1 /\ dataset = 0 /\ state.epoch = epochs

\* C15: after a checkpoint named with the number k was loaded, the
\* accelerator's iteration is k + 1 until a checkpoint is saved, and the
\* full checkpoints saved afterwards are numbered k + 1, k + 2, ... in order.
Loaded       == Last(At("load_state"))
SavedSince(i) == {j \in At("save_state") : j > i}
C15_NumberingAfterResume ==
  (calls = 1 /\ Loaded # 0) =>
     LET k == trace[Loaded].num
     IN  /\ iteration = k + 1 + Cardinality(SavedSince(Loaded))
         /\ \A j \in At("save_state") \cup At("save_state_error") :
              /\ j > Loaded
              /\ trace[j].num = k + 1 + Cardinality({n \in SavedSince(Loaded) : n < j})

\* checkpoint_1 was loaded, checkpoint_2 and checkpoint_3 were saved
C15_Witness ==
  /\ calls = 1 /\ Loaded # 0 /\ trace[Loaded].num = 1
  /\ {trace[j].num : j \in SavedSince(Loaded)} = {2, 3}
  /\ iteration = 4

\* C17: every _save waits at the barrier, then calls save_state, then
\* (unless no_dist) makes the standalone export: a save_state call is
\* immediately preceded by wait_for_everyone of the same _save, an export is
\* immediately preceded by the save_state of the same _save, and every _save
\* that is not the startup one exports after its checkpoint was written.
SameSave(i, j) ==
  /\ trace[i].site = trace[j].site /\ trace[i].ep = trace[j].ep
  /\ trace[i].idx = trace[j].idx /\ trace[i].pos = trace[j].pos
C17_SaveOrder ==
  /\ \A i \in At("save_state") \cup At("save_state_error") :
       i > 1 /\ trace[i - 1].op = "wait_for_everyone" /\ SameSave(i - 1, i)
  /\ \A i \in At("save_pretrained") :
       i > 2 /\ trace[i - 1].op = "save_state" /\ SameSave(i - 1, i)
             /\ trace[i - 2].op = "wait_for_everyone"
  /\ \A i \in At("wait_for_everyone") :
       /\ i < Len(trace)
       /\ trace[i + 1].op \in {"save_state", "save_state_error"}
       /\ (trace[i + 1].op = "save_state" /\ trace[i].site # "startup")
            => (i + 1 < Len(trace) /\ trace[i + 2].op = "save_pretrained")
       /\ trace[i].site = "startup"
            => (i + 1 < Len(trace) => trace[i + 2].op # "save_pretrained")

\* a periodic checkpoint, the final one and the startup one were made
C17_Witness ==
  /\ pc = "returned"
  /\ AtSite("save_pretrained", "loop") # {} /\ AtSite("save_pretrained", "final") # {}
  /\ AtSite("save_state", "startup") # {}

\* C18: state.steps grows by exactly one per processed batch (also for the
\* batch on which max_steps breaks) and by nothing else in the loop,
\* state.epoch grows by exactly one at the end of every epoch entered, so a
\* train() that returns has state.epoch = max(starting epoch, epochs) and
\* state.steps = starting steps + number of backward calls; no save changes
\* the TrainerState.
StartState ==
  IF Loaded = 0 THEN TrainerState
  ELSE (CHOOSE c \in checkpoints : c.num = trace[Loaded].num).state
Max(a, b) == IF a >= b THEN a ELSE b
C18_Inv ==
  (calls = 1) =>
     /\ state.steps = StartState.steps + Cardinality(At("zero_grad"))
     /\ state.epoch = StartState.epoch + Cardinality(At("epoch_end"))
     /\ \A i \in At("epoch_end") : trace[i].ep = StartState.epoch + Cardinality({j \in At("epoch_end") : j < i})
     /\ pc = "returned" =>
          /\ state.epoch = Max(StartState.epoch, epochs)
          /\ state.steps = StartState.steps + Cardinality(At("backward"))
C18_Step ==
  (pc # "idle") =>
     \/ state' = state
     \/ /\ pc = "batch" /\ pc' \in {"batch", "raised"}
        /\ state'.steps = state.steps + 1 /\ state'.epoch = state.epoch
        /\ Cardinality(At("zero_grad")') = Cardinality(At("zero_grad")) + 1
     \/ /\ pc = "batch" /\ pc' = "epoch"
        /\ state' = [state EXCEPT !.epoch = @ + 1]
C18_Counters == [](C18_Inv) /\ [][C18_Step]_vars

\* a resumed run (one step done before) that broke on max_steps and returned
C18_Witness ==
  /\ calls = 1 /\ pc = "returned" /\ StartState.steps = 1
  /\ max_steps = 0 /\ epochs = 2 /\ state.epoch = 2
  /\ state.steps = 1 + Cardinality(At("backward")) /\ state.steps >= 2

\* C19 (as claimed): the number used by each save is strictly greater than
\* every checkpoint number present in the checkpoints directory when the save
\* is made, so no checkpoint is written under a name that exists.
WrittenFrom(i) == {trace[j].num : j \in {n \in At("save_state") : n >= i}}
C19_FreshNumbers ==
  \A i \in At("save_state") \cup At("save_state_error") :
    \A c \in checkpoints :
      c.num \notin WrittenFrom(i) => trace[i].num > c.num

\* C16 (as claimed): with load_checkpoint set, whenever no checkpoint can be
\* loaded (no checkpoints directory, an empty one, or a selected checkpoint
\* that lacks a file), startup raises nothing, makes the fallback save and
\* training goes on as a first run.
C16_LoadFailureNotFatal ==
  (load_checkpoint /\ calls = 1 /\ NoResume) =>
     /\ At("register") # {}
     /\ Cardinality(AtSite("wait_for_everyone", "startup")) = 1
     /\ StartState = TrainerState
     /\ \A i \in DOMAIN trace : trace[i].site = "startup" => trace[i].op # "save_state_error"

\* C13: the default scheduler factory is invoked by the constructor exactly
\* when use_scheduler is true and no scheduler was passed; with
\* use_scheduler false it is never invoked, whether or not a scheduler was
\* passed, and no scheduler is stepped during training.
C13_SchedulerFactory ==
  /\ scheduler = "default" <=> (use_scheduler /\ ~scheduler_arg)
  /\ scheduler_arg => scheduler = "given"
  /\ ~use_scheduler =>
       /\ scheduler # "default"
       /\ At("scheduler_step") = {} /\ At("scheduler_error") = {}
  /\ use_scheduler =>
       \A i \in At("zero_grad") : trace[i - 1].op = "scheduler_step"

\* a scheduler was passed with use_scheduler false, and a run has returned
C13_Witness ==
  /\ ~use_scheduler /\ scheduler_arg /\ scheduler = "given"
  /\ pc = "returned" /\ At("optimizer_step") # {}

\* C11: state_dict() holds the three fields of its object; loading
\* s.state_dict() into any TrainerState t makes t's fields equal to those s
\* had; s.load_state_dict(s.state_dict()) leaves s unchanged; and assigning
\* to an object afterwards does not change the mapping that was returned.
KeySet == {Keys[i] : i \in DOMAIN Keys}
C11_Inv ==
  /\ ts_op.op = "state_dict" =>
       /\ DOMAIN mapping = KeySet
       /\ \A k \in KeySet : mapping[k] = ts[ts_op.obj][k]
       /\ snap = <<ts[ts_op.obj]>>
  /\ (ts_op.op = "load_state_dict" /\ snap # << >>) =>
       (key_error = "" /\ ts[ts_op.obj] = snap[1])
  /\ snap # << >> => \A k \in KeySet : mapping[k] = snap[1][k]
C11_Step ==
  /\ (ts_op'.op = "load_state_dict" /\ snap # << >> /\ ts[ts_op'.obj] = snap[1])
       => ts' = ts
  /\ ts_op'.op = "assign" => (mapping' = mapping /\ snap' = snap)
C11_RoundTrip == [](C11_Inv) /\ [][C11_Step]_vars

\* s.state_dict() was taken, s was assigned to, and the mapping was loaded
\* into t: t has the fields s had, s has moved on
C11_Witness ==
  /\ ts_op = [op |-> "load_state_dict", obj |-> "t"]
  /\ snap # << >> /\ snap[1] # TrainerState
  /\ ts["t"] = snap[1] /\ ts["s"] # snap[1]
  /\ ts["s"].steps = snap[1].steps + 1

\* C12: load_state_dict(mapping) overwrites epoch, steps and global_loss
\* with the mapping's values when the mapping has the three keys, and raises
\* a KeyError for an absent key when one of them is absent.
C12_Step ==
  ts_op'.op = "load_state_dict" =>
     LET o == ts_op'.obj
     IN  /\ \A x \in Objects \ {o} : ts'[x] = ts[x]
         /\ IF KeySet \subseteq DOMAIN mapping
            THEN /\ key_error' = ""
                 /\ \A k \in KeySet : ts'[o][k] = mapping[k]
            ELSE /\ key_error' \in KeySet \ DOMAIN mapping
C12_Inv ==
  (ts_op.op = "load_state_dict" /\ key_error = "") =>
     \A k \in KeySet : ts[ts_op.obj][k] = mapping[k]
C12_LoadStateDict == [](C12_Inv) /\ [][C12_Step]_vars

\* a load from a mapping without "global_loss" has raised
C12_Witness ==
  /\ ts_op.op = "load_state_dict" /\ key_error = "global_loss"
  /\ DOMAIN mapping = {"epoch", "steps"}

\* C14: a run of E epochs over B batches (no max_steps) that is stopped
\* right after a full checkpoint and resumed from it with the same E has
\* completed, before the checkpoint and after the resume together, the same
\* sequence of (epoch, loader position) batches as the run that is not
\* interrupted completes: none twice, none left out.
Uninterrupted(E, B) == IF E >= 1 THEN [i \in 1 .. B |-> <<0, i - 1>>] ELSE << >>
====
